---------------------------- MODULE Spec2Model ----------------------------
(***************************************************************************)
(* azonk: the device-code Authenticator (internal/auth) and the Graph API  *)
(* client's pagination (internal/graph/client.go).                         *)
(*                                                                         *)
(* One behaviour of AuthSpec is one process run: a fresh Authenticator,    *)
(* one GetTokens call, cut into steps at its blocking points (each HTTP    *)
(* exchange, the poll sleep).  One behaviour of PageSpec is one            *)
(* GetAllPages call, cut at each page exchange and each rate-limit sleep.  *)
(* One behaviour of ValidSpec is one isTokenValid call on an Authenticator  *)
(* that holds any credential, at any clock.  One behaviour of HuntSpec is   *)
(* one Hunter.Run call (internal/hunt), cut at each search reply and at    *)
(* the return of the download and extraction phases.                       *)
(*                                                                         *)
(* Time is in whole seconds.  Go strings that hold numbers are records     *)
(* [tag, n]; error messages and descriptions are sequences of words, and   *)
(* strings.Contains is membership of a word.                               *)
(***************************************************************************)
EXTENDS Integers, Sequences, FiniteSets, TLC

VARIABLES
    \* ---- Authenticator and its environment
    now,          \* wall clock, seconds
    pc,           \* position of the GetTokens call
    flow,         \* device-code state machine of spec 4.1
    store,        \* content of tokens.json
    tokens,       \* Authenticator.tokens (in memory)
    session,      \* the DeviceCodeResponse held by deviceCodeAuth
    interval,     \* pollForToken: interval
    expiresIn,    \* pollForToken: expiresIn
    deadline,     \* pollForToken: deadline
    result,       \* what GetTokens returned
    redeemed,     \* number of redemption responses received in this flow
    pendings,     \* how many of them carried the error code authorization_pending
    lastResponse, \* the last redemption response received
    lastLatency,  \* duration of the last redemption exchange
    refreshErr,   \* what refresh() returned (Nil: not called)
    dcExchange,   \* how the device-code request ended (Nil: not yet)
    refreshGrant, \* the response refresh() accepted (Nil: none)
    before,       \* the clock, tokens.json and the loaded credential when GetTokens was called
    authLog,      \* identity-provider requests, displays, sleeps and store writes, in order
    \* ---- Graph client, one call: Get, Post or GetAllPages
    client,       \* the Client, as NewClient built it (Nil: none)
    call,         \* the Get or Post call: its request, its response, its result
    sentHeaders,  \* the headers of every request the client sent, in order
    gpc,          \* position of the call
    maxResults,   \* GetAllPages argument
    nextLink,     \* GetAllPages: nextLink ("" is 0)
    allResults,   \* GetAllPages: allResults
    pageResult,   \* what GetAllPages returned
    pageResponses,\* page responses received, in order
    pageLog,      \* page requests (their URL) and rate-limit delays, in order
    \* ---- Hunter, one Run call
    hpc,          \* position of the Run call
    opts,         \* Run's argument, a types.SearchOptions
    huntLog,      \* the phases Run has entered, in order
    search,       \* SearchWithOptions: the index of the query sent, seenIDs, results
    huntResult    \* Run: result, the types.HuntResult being built and returned

authVars == <<now, pc, flow, store, tokens, session, interval, expiresIn,
              deadline, result, redeemed, pendings, lastResponse, lastLatency,
              refreshErr, dcExchange, refreshGrant, before, authLog>>
pageVars == <<client, call, sentHeaders, gpc, maxResults, nextLink, allResults,
              pageResult, pageResponses, pageLog>>
huntVars == <<hpc, opts, huntLog, search, huntResult>>
vars == <<authVars, pageVars, huntVars>>

---------------------------------------------------------------------------
(* Bounds of the model                                                     *)

StartTime == 10000      \* the clock when the process starts
MaxLatency == 2         \* the longest an HTTP exchange takes, seconds
MaxExpiresIn == 5       \* largest device-code lifetime the server grants
ServerInterval == 2     \* the poll interval the server asks for, when it does
MaxPolls == 4           \* cap on redemption requests in one flow (never reached)
ServerLifetime == 7200  \* lifetime of the tokens the server issues
ServerClockAhead == 60  \* how far the server's clock is ahead of the client's
LocalZone == 3600       \* the process's time zone, seconds east of UTC
MaxJSONTime == 2000000000 \* stands for the year 10000: no later time has a JSON form

(* Program constants *)
DefaultInterval == 5    \* parseIntOrDefault(dc.Interval, 5)
DefaultExpiresIn == 900 \* parseIntOrDefault(dc.ExpiresIn, 900)
SkewSeconds == 300      \* 5 * time.Minute
HourSeconds == 3600     \* time.Hour
ZeroTime == -2000000000 \* time.Time{}: the year 1, long before the Unix epoch (0)

---------------------------------------------------------------------------
(* Strings that carry numbers, and words                                   *)

EmptyStr == [tag |-> "empty", n |-> 0]
JunkStr == [tag |-> "junk", n |-> 0]
Num(n) == [tag |-> "num", n |-> n]
\* the digits of n followed by other characters, as in "2s"
Prefixed(n) == [tag |-> "prefix", n |-> n]

\* strings.Contains(s, w), s a sequence of words
Contains(s, w) == \E i \in 1..Len(s) : s[i] = w

Front(q) == SubSeq(q, 1, Len(q) - 1)
Last(q) == q[Len(q)]

NoErr == [kind |-> "nil", msg |-> <<>>]
Err(k, m) == [kind |-> k, msg |-> m]
\* fmt.Errorf(prefix + ": %w", err)
Wrap(prefix, err) == [kind |-> err.kind, msg |-> <<prefix>> \o err.msg]

Nil == [kind |-> "nil"]

---------------------------------------------------------------------------
(* types.TokenResponse and its JSON form                                   *)

TokenResponse(at, rt, ein, eon, eat) ==
    [kind |-> "tokens", AccessToken |-> at, RefreshToken |-> rt,
     ExpiresIn |-> ein, ExpiresOn |-> eon, ExpiresAt |-> eat]

\* the zone a time.Time carries: UTC for the zero time, else the local zone
ZoneOf(t) == IF t = ZeroTime THEN 0 ELSE LocalZone

\* time.Time.MarshalJSON, RFC 3339: the wall clock in the time's zone, and
\* the zone's offset
FormatTime(t) == [kind |-> "time", wall |-> t + ZoneOf(t), zone |-> ZoneOf(t)]

\* (mutant) the offset is not read back
ParseTimeAsUTC(j) == IF j = Nil THEN ZeroTime ELSE j.wall

\* time.Time.UnmarshalJSON; a key that is absent leaves the zero time
ParseTime(j) == IF j = Nil THEN ZeroTime ELSE j.wall - j.zone

\* json.Unmarshal(body, &tokens): Go field <- JSON key
UnmarshalTokens(j) ==
    TokenResponse(j.access_token, j.refresh_token, j.expires_in, j.expires_on,
                  ParseTime(j.expires_at))

\* json.MarshalIndent fails on a time whose year is past 9999
MarshalFails(t) == t.ExpiresAt >= MaxJSONTime

\* (mutant) the record also takes the device code of the session under way
MarshalWithSession(t) ==
    IF session = Nil
    THEN [access_token |-> t.AccessToken, refresh_token |-> t.RefreshToken,
          expires_in |-> t.ExpiresIn, expires_on |-> t.ExpiresOn,
          expires_at |-> FormatTime(t.ExpiresAt)]
    ELSE [access_token |-> t.AccessToken, refresh_token |-> t.RefreshToken,
          expires_in |-> t.ExpiresIn, expires_on |-> t.ExpiresOn,
          expires_at |-> FormatTime(t.ExpiresAt),
          device_code |-> session.device_code]

\* json.MarshalIndent(a.tokens): JSON key <- Go field
MarshalTokens(t) ==
    [access_token |-> t.AccessToken, refresh_token |-> t.RefreshToken,
     expires_in |-> t.ExpiresIn, expires_on |-> t.ExpiresOn,
     expires_at |-> FormatTime(t.ExpiresAt)]

\* fmt.Sscanf(s, "%d", &val): <<val, err>>; the verb reads the leading
\* integer and what follows it in s is not an error
Sscanf(s) == IF s.tag \in {"num", "prefix"} THEN <<s.n, FALSE>> ELSE <<0, TRUE>>

\* (mutant) a value that parses is used even when it is not positive
parseIntNoFloor(s, defaultVal) ==
    LET r == Sscanf(s)
    IN  IF r[2] THEN defaultVal ELSE r[1]

parseIntOrDefault(s, defaultVal) ==
    LET r == Sscanf(s)
    IN  IF r[2] \/ r[1] <= 0 THEN defaultVal ELSE r[1]

\* (mutant) the relative field wins when it is there
RelativeFirst(t, clock) ==
    IF t.ExpiresIn # EmptyStr
    THEN [t EXCEPT !.ExpiresAt = clock + Sscanf(t.ExpiresIn)[1]]
    ELSE IF t.ExpiresOn # EmptyStr
    THEN [t EXCEPT !.ExpiresAt = Sscanf(t.ExpiresOn)[1]]
    ELSE [t EXCEPT !.ExpiresAt = clock + HourSeconds]

\* (mutant) no default lifetime
NoDefault(t, clock) ==
    IF t.ExpiresOn # EmptyStr
    THEN [t EXCEPT !.ExpiresAt = Sscanf(t.ExpiresOn)[1]]
    ELSE t

parseExpiration(t, clock) ==
    IF t.ExpiresOn # EmptyStr
    THEN [t EXCEPT !.ExpiresAt = Sscanf(t.ExpiresOn)[1]]
    ELSE [t EXCEPT !.ExpiresAt = clock + HourSeconds]

---------------------------------------------------------------------------
(* The identity provider and the file system: what they may answer        *)

\* an exchange is answered at once, or after MaxLatency seconds
Latencies == {0, MaxLatency}

ErrorCodes == {"authorization_pending", "slow_down", "access_denied", "expired_token"}
Descriptions == {<<"declined">>, <<"was", "authorization_pending", "before">>}

TransportFailure == [kind |-> "transport"]
Unparseable(s) == [kind |-> "badjson", status |-> s]
Json(s, b) == [kind |-> "json", status |-> s, body |-> b]

\* a JSON body of the token endpoint, issued at time t
TokenBody(e, d, at, rt, ein, eon) ==
    [error |-> e, error_description |-> d, access_token |-> at,
     refresh_token |-> rt, expires_in |-> ein, expires_on |-> eon,
     expires_at |-> Nil]

\* expires_in is the lifetime, expires_on the server's clock plus the lifetime
GrantBodies(t) ==
    { TokenBody("", <<>>, at, "refNew", ein, eon) :
        at \in {"", "tokNew"},
        ein \in {EmptyStr, Num(ServerLifetime)},
        eon \in {EmptyStr, JunkStr, Num(t + ServerClockAhead + ServerLifetime)} }
        \cup {TokenBody("", <<>>, "tokNew", "", EmptyStr, EmptyStr),
              TokenBody("", <<>>, "tokNew", "refNew", EmptyStr, Num(MaxJSONTime))}

ErrorBodies ==
    { TokenBody(e, d, "", "", EmptyStr, EmptyStr) :
        e \in ErrorCodes, d \in Descriptions }
        \cup {TokenBody("access_denied", <<"declined">>, "tokNew", "", EmptyStr, EmptyStr)}

\* the server's answer while the user has not yet acted: its error code
IsPendingResponse(x) ==
    x.kind = "json" /\ x.body.error = "authorization_pending"

\* the server's grant: an access token and no error code
IsSuccessResponse(x) ==
    x.kind = "json" /\ x.body.error = "" /\ x.body.access_token # ""

TokenExchanges(t) ==
    {TransportFailure, Unparseable(200)}
        \cup { Json(200, b) : b \in GrantBodies(t) }
        \cup { Json(400, b) : b \in ErrorBodies }

DeviceCodeBody(dcode, ucode, ein, ivl) ==
    [device_code |-> dcode, user_code |-> ucode, expires_in |-> ein,
     interval |-> ivl]

DeviceCodeBodies ==
    { DeviceCodeBody("devcode", "USERCODE", Num(e), i) :
        e \in {MaxExpiresIn - 3, MaxExpiresIn},
        i \in {EmptyStr, JunkStr, Num(0), Num(0 - 1), Num(ServerInterval),
               Prefixed(ServerInterval)} }

DeviceCodeExchanges ==
    {TransportFailure, Unparseable(200), Unparseable(502)}
        \cup { Json(s, b) : s \in {200, 400}, b \in DeviceCodeBodies }

\* an exchange without its body: transport failure, or status and parseability
Outcome(x) ==
    IF x.kind = "transport" THEN x ELSE [kind |-> x.kind, status |-> x.status]

\* os.WriteFile(a.tokenFile, data, 0600)
WriteOutcomes == {"written", "open failed", "write failed"}

FileAbsent == [kind |-> "absent"]
FileMalformed == [kind |-> "malformed"]
FileRecord(j) == [kind |-> "record", json |-> j]

WriteFile(old, data, outcome) ==
    CASE outcome = "written" -> FileRecord(data)
      [] outcome = "open failed" -> old
      [] outcome = "write failed" -> FileMalformed   \* O_TRUNC, then nothing

\* (mutant) the record is written before the expiry has been computed
saveBeforeParseExpiration(old, t, outcome) ==
    [log |-> "write " \o outcome,
     file |-> WriteFile(old, MarshalTokens([t EXCEPT !.ExpiresAt = ZeroTime]), outcome)]

\* saveTokens: [log, file]
saveTokens(old, t, outcome) ==
    IF MarshalFails(t)
    THEN [log |-> "marshal failed", file |-> old]
    ELSE [log |-> "write " \o outcome,
          file |-> WriteFile(old, MarshalTokens(t), outcome)]

StoredRecord(at, rt, eat) ==
    FileRecord([access_token |-> at, refresh_token |-> rt,
                expires_in |-> EmptyStr, expires_on |-> EmptyStr,
                expires_at |-> FormatTime(eat)])

\* what tokens.json may hold when the process starts
InitialStores ==
    {FileAbsent, FileMalformed}
        \cup { StoredRecord("tokOld", rt, eat) :
                 rt \in {"", "refOld"},
                 eat \in {StartTime - 1, StartTime + SkewSeconds,
                          StartTime + SkewSeconds + 1} }
        \cup {StoredRecord("", "refOld", StartTime + HourSeconds),
              StoredRecord("", "", ZeroTime)}

---------------------------------------------------------------------------
(* Authenticator: the pure parts                                           *)

\* loadTokens: [err, tokens]
loadTokens(file) ==
    IF file.kind = "record"
    THEN [err |-> NoErr, tokens |-> UnmarshalTokens(file.json)]
    ELSE [err |-> Err("persistence", <<"load">>), tokens |-> Nil]

\* (mutant) refresh takes a response without an access token
refreshParseAnyToken(x) ==
    CASE x.kind = "transport" -> [err |-> Err("transport", <<"Post", "TokenEndpoint">>), tokens |-> Nil]
      [] x.kind = "badjson" -> [err |-> Err("protocol", <<"invalid", "character">>), tokens |-> Nil]
      [] x.kind = "json" -> [err |-> NoErr, tokens |-> UnmarshalTokens(x.body)]

\* refresh, from the response to the decision: [err, tokens]
refreshParse(x) ==
    CASE x.kind = "transport" -> [err |-> Err("transport", <<"Post", "TokenEndpoint">>), tokens |-> Nil]
      [] x.kind = "badjson" -> [err |-> Err("protocol", <<"invalid", "character">>), tokens |-> Nil]
      [] x.kind = "json" ->
            IF x.body.access_token = ""
            THEN [err |-> Err("protocol", <<"no access token in refresh response">>), tokens |-> Nil]
            ELSE [err |-> NoErr, tokens |-> UnmarshalTokens(x.body)]

\* requestDeviceCode: [err, dc].  The status code is never read.
requestDeviceCode(x) ==
    CASE x.kind = "transport" -> [err |-> Err("transport", <<"Post", "DeviceCodeEndpoint">>), dc |-> Nil]
      [] x.kind = "badjson" -> [err |-> Err("protocol", <<"parse response">>), dc |-> Nil]
      [] x.kind = "json" -> [err |-> NoErr, dc |-> x.body]

\* redeemDeviceCode: [err, tokens]
redeemDeviceCode(x) ==
    CASE x.kind = "transport" -> [err |-> Err("transport", <<"Post", "TokenEndpoint">>), tokens |-> Nil]
      [] x.kind = "badjson" -> [err |-> Err("protocol", <<"parse tokens">>), tokens |-> Nil]
      [] x.kind = "json" ->
            IF x.body.error # ""
            THEN [err |-> Err("oauth", <<x.body.error, ":">> \o x.body.error_description),
                  tokens |-> Nil]
            ELSE IF x.body.access_token = ""
            THEN [err |-> Err("protocol", <<"no access token in response">>), tokens |-> Nil]
            ELSE [err |-> NoErr, tokens |-> UnmarshalTokens(x.body)]

\* (mutant) the loop goes on for slow_down instead
KeepPollingOnSlowDown(err) == Contains(err.msg, "slow_down")

\* pollForToken line 168: which redemption errors keep the loop going
KeepPolling(err) == Contains(err.msg, "authorization_pending")

\* (mutant) no cached credential is ever good enough
NeverValid(t, clock) == FALSE

\* (mutant) the 5-minute boundary itself still counts as valid
ValidAtSkewBoundary(t, clock) ==
    IF t = Nil THEN FALSE ELSE clock <= t.ExpiresAt - SkewSeconds

isTokenValid(t, clock) ==
    IF t = Nil THEN FALSE ELSE clock < t.ExpiresAt - SkewSeconds

\* (mutant) the deadline itself still counts as before the deadline
NotAfterDeadline(clock, dl) == clock <= dl

\* (mutant) a loop without a deadline
NoDeadline(clock, dl) == TRUE

\* pollForToken line 163: the loop condition
BeforeDeadline(clock, dl) == clock < dl

Ok(t) == [ok |-> TRUE, tokens |-> t, err |-> NoErr]
Failed(e) == [ok |-> FALSE, tokens |-> Nil, err |-> e]

\* (mutant) GetTokens returns the load error
ReturnLoadError(err) == [goto |-> "done", result |-> Failed(err)]

\* GetTokens lines 50 and 67: where a failed loadTokens leads
AfterLoadFailure(err) == [goto |-> "devicecode", result |-> Nil]

\* (mutant) GetTokens returns the refresh error
ReturnRefreshError(err) == [goto |-> "done", result |-> Failed(err)]

\* GetTokens lines 59-67: where a failed refresh leads
AfterRefreshFailure(err) == [goto |-> "devicecode", result |-> Nil]

\* (mutant) a failed refresh clears the credential
ClearedOnFailure(held, r) == IF r.err = NoErr THEN r.tokens ELSE Nil

\* (mutant) a response without a refresh token keeps the old one
KeepOldRefreshToken(held, r) ==
    IF r.err # NoErr THEN held
    ELSE IF r.tokens.RefreshToken = ""
    THEN [r.tokens EXCEPT !.RefreshToken = held.RefreshToken]
    ELSE r.tokens

\* refresh lines 243-252: a.tokens is assigned once the response has passed
HeldAfterRefresh(held, r) == IF r.err = NoErr THEN r.tokens ELSE held

\* (mutant) a redemption that fails clears the credential
ClearedOnFlowFailure(held, r) == IF r.err = NoErr THEN r.tokens ELSE Nil

\* deviceCodeAuth lines 97-103: a.tokens is assigned once pollForToken has
\* returned tokens
HeldAfterRedeem(held, r) == IF r.err = NoErr THEN r.tokens ELSE held

\* (mutant) a failed save fails the operation
FailOnSaveError(t, w) ==
    IF w = "written" THEN Ok(t) ELSE Failed(Err("persistence", <<"save tokens">>))

\* deviceCodeAuth lines 106-111, refresh lines 255-260: a save error is only
\* a warning
ReturnedAfterSave(t, w) == Ok(t)

\* GetAccessToken, from what GetTokens returned: [token, err]
GetAccessToken(res) ==
    IF res.err # NoErr
    THEN [token |-> "", err |-> res.err]
    ELSE [token |-> res.tokens.AccessToken, err |-> NoErr]

\* (mutant) a flow that failed is started again
RestartFlow(err) == "devicecode"

\* deviceCodeAuth lines 97-100, GetTokens line 67: where a failed poll leads
AfterFlowFailure(err) == "done"

FlowOutcome(err) ==
    CASE err.kind = "oauth" -> "Denied"
      [] err.kind = "timeout" -> "Expired"
      [] OTHER -> "Error"

Terminal == {"Granted", "Denied", "Expired", "Error"}

---------------------------------------------------------------------------
(* Authenticator: one GetTokens call                                       *)

AuthInit ==
    /\ now = StartTime
    /\ pc = "idle"
    /\ flow = "Idle"
    /\ store \in InitialStores
    /\ tokens = Nil
    /\ session = Nil
    /\ interval = 0
    /\ expiresIn = 0
    /\ deadline = 0
    /\ result = Nil
    /\ redeemed = 0
    /\ pendings = 0
    /\ lastResponse = Nil
    /\ lastLatency = 0
    /\ refreshErr = Nil
    /\ dcExchange = Nil
    /\ refreshGrant = Nil
    /\ before = Nil
    /\ authLog = <<>>

\* deviceCodeAuth up to the device-code request being on the wire
StartDeviceCodeAuth ==
    /\ pc' = "devicecode"
    /\ flow' = "CodeRequested"
    /\ authLog' = Append(authLog, "devicecode request")

\* GetTokens, from the call to its first request or its return
GetTokens ==
    /\ pc = "idle"
    /\ LET loaded == loadTokens(store)
           held == IF loaded.err = NoErr THEN loaded.tokens ELSE tokens
       IN  /\ tokens' = held
           /\ before' = [clock |-> now, store |-> store, tokens |-> held]
           /\ IF loaded.err = NoErr /\ isTokenValid(held, now)
              THEN /\ pc' = "done"
                   /\ result' = Ok(held)
                   /\ UNCHANGED <<flow, authLog>>
              ELSE IF loaded.err = NoErr /\ held.RefreshToken # ""
              THEN /\ pc' = "refresh"
                   /\ authLog' = Append(authLog, "refresh request")
                   /\ UNCHANGED <<flow, result>>
              ELSE IF loaded.err # NoErr /\ AfterLoadFailure(loaded.err).goto = "done"
              THEN /\ pc' = "done"
                   /\ result' = AfterLoadFailure(loaded.err).result
                   /\ UNCHANGED <<flow, authLog>>
              ELSE /\ StartDeviceCodeAuth
                   /\ UNCHANGED result
    /\ UNCHANGED <<now, store, session, interval, expiresIn, deadline,
                   redeemed, pendings, lastResponse, lastLatency, refreshErr,
                   dcExchange, refreshGrant, pageVars, huntVars>>

\* refresh, from its response on; on failure GetTokens goes on
RefreshResponse ==
    /\ pc = "refresh"
    /\ \E lat \in Latencies : \E x \in TokenExchanges(now + lat) :
         LET r == refreshParse(x)
             after == AfterRefreshFailure(r.err)
         IN  /\ now' = now + lat
             /\ refreshErr' = r.err
             /\ refreshGrant' = IF r.err = NoErr THEN x ELSE Nil
             /\ IF r.err = NoErr
                THEN \E w \in WriteOutcomes :
                       /\ tokens' = parseExpiration(HeldAfterRefresh(tokens, r), now')
                       /\ store' = saveTokens(store, tokens', w).file
                       /\ authLog' = Append(authLog, saveTokens(store, tokens', w).log)
                       /\ result' = ReturnedAfterSave(tokens', w)
                       /\ pc' = "done"
                       /\ UNCHANGED flow
                ELSE /\ tokens' = HeldAfterRefresh(tokens, r)
                     /\ UNCHANGED store
                     /\ IF after.goto = "devicecode"
                        THEN /\ StartDeviceCodeAuth
                             /\ UNCHANGED result
                        ELSE /\ pc' = "done"
                             /\ result' = after.result
                             /\ UNCHANGED <<flow, authLog>>
    /\ UNCHANGED <<session, interval, expiresIn, deadline, redeemed, pendings,
                   lastResponse, lastLatency, dcExchange, before, pageVars, huntVars>>

\* pollForToken's loop head: sleep again, or time out
LoopHead(clock, dl, dc) ==
    IF BeforeDeadline(clock, dl)
    THEN /\ pc' = "sleep"
         /\ flow' = "AwaitingUser"
         /\ session' = dc
         /\ UNCHANGED result
    ELSE /\ pc' = "done"
         /\ flow' = "Expired"
         /\ session' = Nil
         /\ result' = Failed(Wrap("authentication failed",
                                 Err("timeout", <<"authentication timed out">>)))

\* deviceCodeAuth, from the device-code response to the first sleep
DeviceCodeResponse ==
    /\ pc = "devicecode"
    /\ \E lat \in Latencies : \E x \in DeviceCodeExchanges :
         LET r == requestDeviceCode(x)
         IN  /\ now' = now + lat
             /\ dcExchange' = Outcome(x)
             /\ IF r.err # NoErr
                THEN /\ pc' = "done"
                     /\ flow' = "Error"
                     /\ result' = Failed(Wrap("request device code", r.err))
                     /\ UNCHANGED <<session, interval, expiresIn, deadline, authLog>>
                ELSE /\ authLog' = Append(authLog, "display")
                     /\ interval' = parseIntOrDefault(r.dc.interval, DefaultInterval)
                     /\ expiresIn' = parseIntOrDefault(r.dc.expires_in, DefaultExpiresIn)
                     /\ deadline' = now' + expiresIn'
                     /\ LoopHead(now', deadline', r.dc)
    /\ UNCHANGED <<store, tokens, redeemed, pendings, lastResponse, lastLatency,
                   refreshErr, refreshGrant, before, pageVars, huntVars>>

\* (mutant) the instructions are displayed again on every round
PollEventsWithDisplay == <<"display", "sleep", "redeem request">>

\* pollForToken lines 164-166: what one round of the loop does before the
\* response
PollEvents == <<"sleep", "redeem request">>

\* time.Sleep(interval), then the redemption request goes out
PollSleep ==
    /\ pc = "sleep"
    /\ redeemed < MaxPolls
    /\ now' = now + interval
    /\ pc' = "redeem"
    /\ authLog' = authLog \o PollEvents
    /\ UNCHANGED <<flow, store, tokens, session, interval, expiresIn, deadline,
                   result, redeemed, pendings, lastResponse, lastLatency,
                   refreshErr, dcExchange, refreshGrant, before, pageVars, huntVars>>

\* from the redemption response to the next sleep or the return of GetTokens
RedeemResponse ==
    /\ pc = "redeem"
    /\ \E lat \in Latencies : \E x \in TokenExchanges(now + lat) :
         LET r == redeemDeviceCode(x)
         IN  /\ now' = now + lat
             /\ lastLatency' = lat
             /\ lastResponse' = x
             /\ redeemed' = redeemed + 1
             /\ pendings' = IF IsPendingResponse(x) THEN pendings + 1 ELSE pendings
             /\ IF r.err = NoErr
                THEN \E w \in WriteOutcomes :
                       /\ tokens' = parseExpiration(HeldAfterRedeem(tokens, r), now')
                       /\ store' = saveTokens(store, tokens', w).file
                       /\ authLog' = Append(authLog, saveTokens(store, tokens', w).log)
                       /\ result' = ReturnedAfterSave(tokens', w)
                       /\ flow' = "Granted"
                       /\ session' = Nil
                       /\ pc' = "done"
                ELSE /\ tokens' = HeldAfterRedeem(tokens, r)
                     /\ UNCHANGED store
                     /\ IF KeepPolling(r.err)
                        THEN /\ LoopHead(now', deadline, session)
                             /\ UNCHANGED authLog
                        ELSE IF AfterFlowFailure(r.err) = "done"
                        THEN /\ pc' = "done"
                             /\ flow' = FlowOutcome(r.err)
                             /\ session' = Nil
                             /\ result' = Failed(Wrap("authentication failed", r.err))
                             /\ UNCHANGED authLog
                        ELSE /\ StartDeviceCodeAuth
                             /\ session' = Nil
                             /\ UNCHANGED result
    /\ UNCHANGED <<interval, expiresIn, deadline, refreshErr, dcExchange,
                   refreshGrant, before, pageVars, huntVars>>

AuthNext ==
    \/ GetTokens
    \/ RefreshResponse
    \/ DeviceCodeResponse
    \/ PollSleep
    \/ RedeemResponse

---------------------------------------------------------------------------
(* Graph client: one GetAllPages call                                      *)

MaxRequests == 3        \* cap on page requests in one call
MaxPageLen == 2         \* most records in one page
MaxUrl == 2             \* URLs are 1..MaxUrl; 0 is the empty string
MaxCap == 3             \* largest maxResults tried

BaseURL == 1            \* c.baseURL + endpoint
UserAgent == "Mozilla/5.0 Chrome/120.0.0.0"   \* config.UserAgent

\* the access tokens a caller may build a Client with
AccessTokens == {"tokNew", "tokOld"}

NewClient(accessToken) == [accessToken |-> accessToken, baseURL |-> BaseURL]

\* request lines 64-66: the headers of a Get or Post
RequestHeaders(c) ==
    [Authorization |-> <<"Bearer", c.accessToken>>,
     ContentType |-> "application/json", UserAgent |-> UserAgent]

\* (mutant) a page request goes out without the token
PageHeadersWithoutToken(c) ==
    [Authorization |-> <<"Bearer", "">>,
     ContentType |-> "application/json", UserAgent |-> UserAgent]

\* getPage lines 126-128: the headers of a page request
PageHeaders(c) ==
    [Authorization |-> <<"Bearer", c.accessToken>>,
     ContentType |-> "application/json", UserAgent |-> UserAgent]

maxLen == 200           \* truncateError: const maxLen
MaxOver == 3            \* the longest body is maxLen + MaxOver characters

\* a body of n characters, each its own; Dot is the character '.'
Body(n) == [i \in 1..n |-> i]
Dot == 0

\* the body lengths tried
BodyLengths == {0, 1, maxLen - 1, maxLen, maxLen + 1, maxLen + MaxOver}

\* (mutant) the body goes into the error whole
NoTruncation(body) == body

\* truncateError
truncateError(body) ==
    IF Len(body) > maxLen
    THEN SubSeq(body, 1, maxLen) \o <<Dot, Dot, Dot>>
    ELSE body

\* fmt.Errorf("API error %d: %s", resp.StatusCode, truncateError(body))
APIError(status, body) ==
    [kind |-> "api", msg |-> <<"API error">>, status |-> status,
     text |-> truncateError(body)]

\* (mutant) 400 itself is let through
AboveBadRequest(status) == status > 400

\* request line 79, getPage line 141: which statuses are errors
IsAPIError(status) == status >= 400

\* a response taken as raw bytes
Reply(s, text) == [kind |-> "reply", status |-> s, text |-> text]

\* the raw body of a response, where the model keeps it
BodyText(x) == IF x.kind = "reply" THEN x.text ELSE <<>>

\* the i-th response's records: opaque, named by response and position
PageRecords(i, len) == [j \in 1..len |-> <<i, j>>]

Page(s, value, next) == [kind |-> "json", status |-> s, value |-> value, next |-> next]

\* what the Graph API may answer to the i-th page request
PageExchanges(i) ==
    {TransportFailure, Unparseable(200), Unparseable(500)}
        \cup { Page(200, PageRecords(i, len), next) :
                 len \in 0..MaxPageLen, next \in 0..MaxUrl }
        \cup {Page(429, <<>>, 0), Page(400, PageRecords(i, 1), MaxUrl),
              Unparseable(304), Reply(401, Body(maxLen + 1))}

\* getPage: [results, next, err]
getPage(x) ==
    CASE x.kind = "transport" -> [results |-> <<>>, next |-> 0, err |-> Err("transport", <<"Get">>)]
      [] IsAPIError(x.status) ->
            [results |-> <<>>, next |-> 0, err |-> APIError(x.status, BodyText(x))]
      [] x.kind = "reply" -> [results |-> <<>>, next |-> 0, err |-> Err("protocol", <<"parse response">>)]
      [] x.kind = "badjson" -> [results |-> <<>>, next |-> 0, err |-> Err("protocol", <<"parse response">>)]
      [] OTHER -> [results |-> x.value, next |-> x.next, err |-> NoErr]

\* (mutant) the limit is never looked at
LimitIgnored(limit, count) == FALSE

\* (mutant) the loop stops only once the limit is exceeded
LimitExceeded(limit, count) == limit > 0 /\ count > limit

\* GetAllPages line 98: the limit check at the top of the loop
LimitReached(limit, count) == limit > 0 /\ count >= limit

\* (mutant) the delay follows every page
SleepAfterEveryPage(next) == TRUE

\* GetAllPages line 111: whether to sleep after a page
SleepAfterPage(next) == next # 0

\* (mutant) the accumulated records are dropped
NothingOnError(all) == <<>>

\* GetAllPages line 104: what is returned beside the error
ReturnedOnError(all) == all

\* (mutant) a failed page is requested again
RetryPage(err) == "request"

\* GetAllPages lines 103-105: where a failed page request leads
AfterPageError(err) == "done"

\* (mutant) the loop stays on the URL it just requested
StayOnLink(link, next) == link

\* GetAllPages line 108: the URL the loop goes on with
FollowLink(link, next) == next

Requests(log) == SelectSeq(log, LAMBDA e : e.ev = "request")
Delays(log) == SelectSeq(log, LAMBDA e : e.ev = "delay")

\* the top of the loop, nextLink being non-empty: break, or send the next request
LoopTop(limit, all, link, log) ==
    IF LimitReached(limit, Len(all))
    THEN /\ gpc' = "done"
         /\ pageResult' = [results |-> all, err |-> NoErr]
         /\ pageLog' = log
         /\ UNCHANGED sentHeaders
    ELSE /\ Len(Requests(log)) < MaxRequests
         /\ gpc' = "request"
         /\ pageLog' = Append(log, [ev |-> "request", url |-> link])
         /\ sentHeaders' = Append(sentHeaders, PageHeaders(client))
         /\ UNCHANGED pageResult

\* the loop condition, then the loop's top or the return after the loop
LoopCondition(limit, all, link, log) ==
    IF link # 0
    THEN LoopTop(limit, all, link, log)
    ELSE /\ gpc' = "done"
         /\ pageResult' = [results |-> all, err |-> NoErr]
         /\ pageLog' = log
         /\ UNCHANGED sentHeaders

GetAllPages ==
    /\ gpc = "idle"
    /\ \E m \in 0..MaxCap :
         /\ maxResults' = m
         /\ nextLink' = BaseURL
         /\ allResults' = <<>>
         /\ LoopCondition(m, <<>>, BaseURL, pageLog)
    /\ UNCHANGED <<client, call, pageResponses, authVars, huntVars>>

\* from a page's response to the rate-limit sleep or the return
PageResponse ==
    /\ gpc = "request"
    /\ \E x \in PageExchanges(Len(pageResponses) + 1) :
         LET r == getPage(x)
         IN  /\ pageResponses' = Append(pageResponses, x)
             /\ IF r.err # NoErr /\ AfterPageError(r.err) = "done"
                THEN /\ gpc' = "done"
                     /\ pageResult' = [results |-> ReturnedOnError(allResults), err |-> r.err]
                     /\ UNCHANGED <<allResults, nextLink, pageLog, sentHeaders>>
                ELSE IF r.err # NoErr
                THEN /\ Len(Requests(pageLog)) < MaxRequests
                     /\ gpc' = "request"
                     /\ pageLog' = Append(pageLog, [ev |-> "request", url |-> nextLink])
                     /\ sentHeaders' = Append(sentHeaders, PageHeaders(client))
                     /\ UNCHANGED <<allResults, nextLink, pageResult>>
                ELSE /\ allResults' = allResults \o r.results
                     /\ nextLink' = FollowLink(nextLink, r.next)
                     /\ IF SleepAfterPage(nextLink')
                        THEN /\ gpc' = "sleep"
                             /\ UNCHANGED <<pageResult, pageLog, sentHeaders>>
                        ELSE LoopCondition(maxResults, allResults', nextLink', pageLog)
    /\ UNCHANGED <<client, call, maxResults, authVars, huntVars>>

\* time.Sleep(config.RateLimitDelay), then the top of the loop
RateLimitSleep ==
    /\ gpc = "sleep"
    /\ LoopCondition(maxResults, allResults, nextLink,
                     Append(pageLog, [ev |-> "delay", url |-> 0]))
    /\ UNCHANGED <<client, call, maxResults, nextLink, allResults, pageResponses,
                   authVars, huntVars>>

\* json.Unmarshal(raw, &user): [user, err]; a record is a JSON object when it
\* is one of a page's records, named by response and position
UnmarshalUser(raw) == [user |-> [id |-> raw], err |-> Len(raw) # 2]

RECURSIVE DecodeUsers(_)
\* the loop of EnumerateUsers: records that do not decode are skipped
DecodeUsers(raws) ==
    IF raws = <<>> THEN <<>>
    ELSE IF UnmarshalUser(Head(raws)).err
    THEN DecodeUsers(Tail(raws))
    ELSE <<UnmarshalUser(Head(raws)).user>> \o DecodeUsers(Tail(raws))

\* EnumerateUsers, from what GetAllPages(endpoint, 0) returned: [users, err]
EnumerateUsers(res) ==
    IF res.err # NoErr
    THEN [users |-> Nil, err |-> res.err]
    ELSE [users |-> DecodeUsers(res.results), err |-> NoErr]

---------------------------------------------------------------------------
(* Graph client: one Get or Post call                                      *)

Statuses == {200, 204, 304, 400, 401, 429, 500}

\* what the Graph API may answer to a Get or a Post
RequestExchanges ==
    {TransportFailure} \cup { Reply(s, Body(n)) : s \in Statuses, n \in BodyLengths }

\* request, from the response on: [body, err]
request(x) ==
    CASE x.kind = "transport" ->
            [body |-> Nil, err |-> Wrap("execute request", Err("transport", <<"Do">>))]
      [] IsAPIError(x.status) -> [body |-> Nil, err |-> APIError(x.status, x.text)]
      [] OTHER -> [body |-> x.text, err |-> NoErr]

\* Get(endpoint) or Post(endpoint, payload), up to the request being sent
Request ==
    /\ gpc = "idle"
    /\ \E meth \in {"GET", "POST"}, endpoint \in 1..MaxUrl :
         call' = [method |-> meth, url |-> endpoint,
                  payload |-> IF meth = "POST" THEN "json" ELSE "",
                  response |-> Nil, result |-> Nil]
    /\ sentHeaders' = Append(sentHeaders, RequestHeaders(client))
    /\ gpc' = "call"
    /\ UNCHANGED <<client, maxResults, nextLink, allResults, pageResult,
                   pageResponses, pageLog, authVars, huntVars>>

\* from the response to the return of Get or Post
RequestResponse ==
    /\ gpc = "call"
    /\ \E x \in RequestExchanges :
         call' = [call EXCEPT !.response = x, !.result = request(x)]
    /\ gpc' = "done"
    /\ UNCHANGED <<client, sentHeaders, maxResults, nextLink, allResults,
                   pageResult, pageResponses, pageLog, authVars, huntVars>>

PageNext ==
    \/ GetAllPages
    \/ PageResponse
    \/ RateLimitSleep
    \/ Request
    \/ RequestResponse

---------------------------------------------------------------------------
(* Hunter: one Run call                                                    *)

MaxKeywords == 2        \* most keywords in opts.Keywords
MaxFileTypes == 1       \* most extensions in opts.FileTypes
MaxItems == 2           \* drive items are named by their ID, 1..MaxItems
MaxTotal == 5           \* the largest hit total a reply reports

\* types.SearchOptions; keywords and file types are 1..n, named by position
\* (MaxPerQuery only sizes the query and is left out)
Options ==
    [Keywords : 0..MaxKeywords, FileTypes : 0..MaxFileTypes,
     IncludeKQL : BOOLEAN, AutoDownload : BOOLEAN, ExtractSecret : BOOLEAN]

\* buildQueries: the keyword alone (ft = 0), then one query per file type
buildQueries(keyword, fileTypes, includeKQL) ==
    <<[kw |-> keyword, ft |-> 0]>>
        \o (IF includeKQL /\ fileTypes > 0
            THEN [f \in 1..fileTypes |-> [kw |-> keyword, ft |-> f]]
            ELSE <<>>)

RECURSIVE QueriesUpTo(_, _)
\* the queries of SearchWithOptions' two loops, in the order they are sent
QueriesUpTo(o, k) ==
    IF k = 0 THEN <<>>
    ELSE QueriesUpTo(o, k - 1) \o buildQueries(k, o.FileTypes, o.IncludeKQL)

Queries(o) == QueriesUpTo(o, o.Keywords)

Hits(total, items) == [kind |-> "hits", total |-> total, items |-> items]

\* what the search endpoint may answer to one query
SearchReplies ==
    {[kind |-> "failed"], Hits(0, <<>>), Hits(1, <<1>>), Hits(1, <<MaxItems>>),
     Hits(MaxTotal, [i \in 1..MaxItems |-> i])}

\* Search: [result, err]
Search(query, reply) ==
    IF reply.kind = "failed"
    THEN [result |-> Nil, err |-> Wrap("search query", Err("api", <<"Post">>))]
    ELSE [result |-> [Query |-> query, TotalHits |-> reply.total, Items |-> reply.items],
          err |-> NoErr]

RECURSIVE deduplicateItems(_, _)
\* the items whose ID was not seen before, in order
deduplicateItems(items, seen) ==
    IF items = <<>> THEN <<>>
    ELSE IF Head(items) \in seen
    THEN deduplicateItems(Tail(items), seen)
    ELSE <<Head(items)>> \o deduplicateItems(Tail(items), seen \cup {Head(items)})

\* SearchWithOptions' locals before its loop: the next query, seenIDs, results
SearchStart == [i |-> 1, seenIDs |-> {}, results |-> <<>>]

\* one round of SearchWithOptions' loop: the locals after the reply to query
SearchRound(s, query, reply) ==
    LET r == Search(query, reply)
    IN  IF r.err # NoErr \/ r.result.TotalHits = 0
        THEN [s EXCEPT !.i = s.i + 1]
        ELSE LET unique == deduplicateItems(r.result.Items, s.seenIDs)
                 seen == s.seenIDs \cup { unique[j] : j \in 1..Len(unique) }
             IN  IF Len(unique) > 0
                 THEN [i |-> s.i + 1, seenIDs |-> seen,
                       results |-> Append(s.results, [r.result EXCEPT !.Items = unique])]
                 ELSE [s EXCEPT !.i = s.i + 1]

\* SearchWithOptions' return: [results, err]; a failed query is only reported
SearchWithOptions(s) == [results |-> s.results, err |-> NoErr]

RECURSIVE AllItems(_)
AllItems(results) ==
    IF results = <<>> THEN <<>>
    ELSE AllItems(Front(results)) \o Last(results).Items

RECURSIVE SumHits(_)
SumHits(results) ==
    IF results = <<>> THEN 0
    ELSE SumHits(Front(results)) + Last(results).TotalHits

\* aggregateSearchResults: [totalHits, uniqueItems], the map as its key set
aggregateSearchResults(results) ==
    [totalHits |-> SumHits(results),
     uniqueItems |-> { AllItems(results)[j] : j \in 1..Len(AllItems(results)) }]

collectUniqueItems(results) == deduplicateItems(AllItems(results), {})

\* one item in DownloadBatch: left out by the extension filter, failed, or saved
DownloadOutcomes == {"skipped", "failed", "saved"}

RECURSIVE DownloadUpTo(_, _, _)
DownloadUpTo(items, outcomes, k) ==
    IF k = 0 THEN <<>>
    ELSE DownloadUpTo(items, outcomes, k - 1)
            \o (IF outcomes[k] = "saved"
                THEN <<[SourceItem |-> items[k], LocalPath |-> items[k]]>>
                ELSE <<>>)

DownloadBatch(items, outcomes) == DownloadUpTo(items, outcomes, Len(items))

DownloadFromSearchResults(results, outcomes) ==
    LET items == collectUniqueItems(results)
    IN  IF Len(items) = 0 THEN <<>> ELSE DownloadBatch(items, outcomes)

\* ScanFile on one downloaded file: an error, no match, or a match
ScanOutcomes == {"error", "clean", "secret"}

RECURSIVE ScanUpTo(_, _, _)
ScanUpTo(downloads, scans, k) ==
    IF k = 0 THEN <<>>
    ELSE ScanUpTo(downloads, scans, k - 1)
            \o (IF scans[k] = "secret"
                THEN <<[File |-> downloads[k].LocalPath,
                        SourceItem |-> downloads[k].SourceItem]>>
                ELSE <<>>)

ScanDownloadedFiles(downloads, scans) == ScanUpTo(downloads, scans, Len(downloads))

\* (mutant) whatever was found is downloaded
DownloadWhenFound(o, unique) == unique > 0

\* Run line 51: whether the download phase runs
ShouldDownload(o, unique) == o.AutoDownload /\ unique > 0

\* Run line 63: whether the extraction phase runs
ShouldExtract(o, downloaded) == o.ExtractSecret /\ downloaded > 0

\* &types.HuntResult{}
EmptyHuntResult ==
    [SearchResults |-> <<>>, DownloadedFiles |-> <<>>, SecretsFound |-> <<>>,
     Summary |-> [QueriesRun |-> 0, TotalHits |-> 0, UniqueFiles |-> 0,
                  FilesDownloaded |-> 0, SecretsFound |-> 0]]

\* Run lines 72-78: the result with its summary
WithSummary(res, o) ==
    [res EXCEPT !.Summary =
        [QueriesRun |-> o.Keywords,
         TotalHits |-> aggregateSearchResults(res.SearchResults).totalHits,
         UniqueFiles |-> Cardinality(aggregateSearchResults(res.SearchResults).uniqueItems),
         FilesDownloaded |-> Len(res.DownloadedFiles),
         SecretsFound |-> Len(res.SecretsFound)]]

HuntIdle ==
    /\ hpc = "idle"
    /\ opts = Nil
    /\ huntLog = <<>>
    /\ search = Nil
    /\ huntResult = Nil

\* Run from the return of SearchWithOptions to the download phase or the return
AfterSearch(sr, o) ==
    LET res == [EmptyHuntResult EXCEPT !.SearchResults = sr.results]
        unique == Cardinality(aggregateSearchResults(sr.results).uniqueItems)
    IN  IF sr.err # NoErr
        THEN /\ hpc' = "failed"
             /\ huntResult' = Nil
             /\ huntLog' = <<"search">>
        ELSE IF ShouldDownload(o, unique)
        THEN /\ hpc' = "download"
             /\ huntLog' = <<"search", "download">>
             /\ huntResult' = res
        ELSE /\ hpc' = "done"
             /\ huntLog' = <<"search">>
             /\ huntResult' = WithSummary(res, o)

\* Run, up to the first search query being sent; with no keyword the search
\* sends nothing and Run goes on
Run ==
    /\ hpc = "idle"
    /\ \E o \in Options :
         /\ opts' = o
         /\ search' = SearchStart
         /\ IF Queries(o) # <<>>
            THEN /\ hpc' = "search"
                 /\ huntLog' = <<"search">>
                 /\ huntResult' = EmptyHuntResult
            ELSE AfterSearch(SearchWithOptions(SearchStart), o)
    /\ UNCHANGED <<authVars, pageVars>>

\* from the reply to a search query to the next query or, after the last
\* one, on into Run
QueryReturn ==
    /\ hpc = "search"
    /\ \E reply \in SearchReplies :
         LET s == SearchRound(search, Queries(opts)[search.i], reply)
         IN  /\ search' = s
             /\ IF s.i <= Len(Queries(opts))
                THEN UNCHANGED <<hpc, huntLog, huntResult>>
                ELSE AfterSearch(SearchWithOptions(s), opts)
    /\ UNCHANGED <<opts, authVars, pageVars>>

\* from the return of DownloadFromSearchResults to the extraction or the return
DownloadReturn ==
    /\ hpc = "download"
    /\ LET items == collectUniqueItems(huntResult.SearchResults)
       IN  \E outcomes \in [1..Len(items) -> DownloadOutcomes] :
             LET downloaded == DownloadFromSearchResults(huntResult.SearchResults, outcomes)
                 res == [huntResult EXCEPT !.DownloadedFiles = downloaded]
             IN  IF ShouldExtract(opts, Len(downloaded))
                 THEN /\ hpc' = "extract"
                      /\ huntLog' = Append(huntLog, "extract")
                      /\ huntResult' = res
                 ELSE /\ hpc' = "done"
                      /\ huntResult' = WithSummary(res, opts)
                      /\ UNCHANGED huntLog
    /\ UNCHANGED <<opts, search, authVars, pageVars>>

\* from the return of ScanDownloadedFiles to the return of Run
ExtractReturn ==
    /\ hpc = "extract"
    /\ \E scans \in [1..Len(huntResult.DownloadedFiles) -> ScanOutcomes] :
         LET secrets == ScanDownloadedFiles(huntResult.DownloadedFiles, scans)
         IN  huntResult' = WithSummary([huntResult EXCEPT !.SecretsFound = secrets], opts)
    /\ hpc' = "done"
    /\ UNCHANGED <<opts, search, huntLog, authVars, pageVars>>

HuntNext ==
    \/ Run
    \/ QueryReturn
    \/ DownloadReturn
    \/ ExtractReturn

AuthIdle ==
    /\ now = StartTime
    /\ pc = "idle"
    /\ flow = "Idle"
    /\ store = FileAbsent
    /\ tokens = Nil
    /\ session = Nil
    /\ interval = 0
    /\ expiresIn = 0
    /\ deadline = 0
    /\ result = Nil
    /\ redeemed = 0
    /\ pendings = 0
    /\ lastResponse = Nil
    /\ lastLatency = 0
    /\ refreshErr = Nil
    /\ dcExchange = Nil
    /\ refreshGrant = Nil
    /\ before = Nil
    /\ authLog = <<>>

\* no call made yet
NoCall ==
    /\ call = Nil
    /\ sentHeaders = <<>>
    /\ gpc = "idle"
    /\ maxResults = 0
    /\ nextLink = 0
    /\ allResults = <<>>
    /\ pageResult = Nil
    /\ pageResponses = <<>>
    /\ pageLog = <<>>

PageIdle == client = Nil /\ NoCall

AuthStart == AuthInit /\ PageIdle /\ HuntIdle
PageStart ==
    /\ AuthIdle
    /\ client \in { NewClient(t) : t \in AccessTokens }
    /\ NoCall
    /\ HuntIdle

AuthSpec == AuthStart /\ [][AuthNext]_vars

\* a process that starts with no tokens.json: GetTokens goes straight to the
\* device-code flow
FlowStart == AuthStart /\ store = FileAbsent

FlowNext ==
    \/ GetTokens
    \/ DeviceCodeResponse
    \/ PollSleep
    \/ RedeemResponse

\* the call is sequential code: a sleep ends and an HTTP exchange returns
\* (http.Client.Timeout), so the step that is enabled is taken
FlowFairSpec == FlowStart /\ [][FlowNext]_vars /\ WF_vars(FlowNext)

PageSpec == PageStart /\ [][PageNext]_vars

HuntStart == AuthIdle /\ PageIdle /\ HuntIdle

HuntSpec == HuntStart /\ [][HuntNext]_vars

---------------------------------------------------------------------------
(* isTokenValid on its own: an Authenticator holding any credential, at any *)
(* clock                                                                   *)

MaxClock == 3           \* clocks tried: StartTime .. StartTime + MaxClock
MaxMargin == 3          \* expiry times tried reach this far around each boundary

ExpiryTimes ==
    {ZeroTime, 0, StartTime + HourSeconds}
        \cup (StartTime - MaxMargin .. StartTime + MaxClock + MaxMargin)
        \cup (StartTime + SkewSeconds - MaxMargin ..
                 StartTime + SkewSeconds + MaxClock + MaxMargin)

HeldCredentials ==
    {Nil} \cup { TokenResponse("tokOld", "refOld", EmptyStr, EmptyStr, eat) :
                   eat \in ExpiryTimes }

ValidStart ==
    /\ now \in StartTime .. StartTime + MaxClock
    /\ tokens \in HeldCredentials
    /\ pc = "idle"
    /\ flow = "Idle"
    /\ store = FileAbsent
    /\ session = Nil
    /\ interval = 0
    /\ expiresIn = 0
    /\ deadline = 0
    /\ result = Nil
    /\ redeemed = 0
    /\ pendings = 0
    /\ lastResponse = Nil
    /\ lastLatency = 0
    /\ refreshErr = Nil
    /\ dcExchange = Nil
    /\ refreshGrant = Nil
    /\ before = Nil
    /\ authLog = <<>>
    /\ PageIdle
    /\ HuntIdle

\* a.isTokenValid() is called and returns
CallIsTokenValid ==
    /\ pc = "idle"
    /\ pc' = "done"
    /\ result' = [valid |-> isTokenValid(tokens, now)]
    /\ UNCHANGED <<now, flow, store, tokens, session, interval, expiresIn,
                   deadline, redeemed, pendings, lastResponse, lastLatency,
                   refreshErr, dcExchange, refreshGrant, before, authLog,
                   pageVars, huntVars>>

ValidNext == CallIsTokenValid

ValidSpec == ValidStart /\ [][ValidNext]_vars

---------------------------------------------------------------------------
(* saveTokens, then loadTokens, on an Authenticator holding any credential *)

RoundTripCredentials ==
    { TokenResponse(at, rt, ein, eon, eat) :
        at \in {"", "tokNew"},
        rt \in {"", "refNew"},
        ein \in {EmptyStr, Num(ServerLifetime)},
        eon \in {EmptyStr, JunkStr},
        eat \in {ZeroTime, 0, StartTime, StartTime + HourSeconds,
                 MaxJSONTime - 1, MaxJSONTime} }

RoundTripStart ==
    /\ now = StartTime
    /\ tokens \in RoundTripCredentials
    /\ store \in {FileAbsent, FileMalformed,
                  StoredRecord("tokOld", "refOld", StartTime - 1)}
    /\ pc = "idle"
    /\ flow = "Idle"
    /\ session = Nil
    /\ interval = 0
    /\ expiresIn = 0
    /\ deadline = 0
    /\ result = Nil
    /\ redeemed = 0
    /\ pendings = 0
    /\ lastResponse = Nil
    /\ lastLatency = 0
    /\ refreshErr = Nil
    /\ dcExchange = Nil
    /\ refreshGrant = Nil
    /\ before = Nil
    /\ authLog = <<>>
    /\ PageIdle
    /\ HuntIdle

\* a.saveTokens() is called and returns
CallSaveTokens ==
    /\ pc = "idle"
    /\ pc' = "saved"
    /\ before' = [clock |-> now, store |-> store, tokens |-> tokens]
    /\ \E w \in WriteOutcomes :
         /\ store' = saveTokens(store, tokens, w).file
         /\ authLog' = Append(authLog, saveTokens(store, tokens, w).log)
    /\ UNCHANGED <<now, flow, tokens, session, interval, expiresIn, deadline,
                   result, redeemed, pendings, lastResponse, lastLatency,
                   refreshErr, dcExchange, refreshGrant, pageVars, huntVars>>

\* a.loadTokens() is called and returns
CallLoadTokens ==
    /\ pc = "saved"
    /\ pc' = "done"
    /\ LET loaded == loadTokens(store)
       IN  /\ tokens' = IF loaded.err = NoErr THEN loaded.tokens ELSE tokens
           /\ result' = [err |-> loaded.err]
    /\ UNCHANGED <<now, flow, store, session, interval, expiresIn, deadline,
                   redeemed, pendings, lastResponse, lastLatency, refreshErr,
                   dcExchange, refreshGrant, before, authLog, pageVars, huntVars>>

RoundTripNext ==
    \/ CallSaveTokens
    \/ CallLoadTokens

RoundTripSpec == RoundTripStart /\ [][RoundTripNext]_vars

\* the whole program: the token is obtained, then pages are fetched
Init == AuthInit /\ PageIdle /\ HuntIdle
\* the caller builds the Client from the token GetAccessToken returned
BuildClient ==
    /\ pc = "done"
    /\ result.ok
    /\ client = Nil
    /\ client' = NewClient(GetAccessToken(result).token)
    /\ UNCHANGED <<authVars, huntVars, call, sentHeaders, gpc, maxResults, nextLink,
                   allResults, pageResult, pageResponses, pageLog>>

Next == AuthNext \/ BuildClient \/ (client # Nil /\ PageNext)
Spec == Init /\ [][Next]_vars

---------------------------------------------------------------------------
(* Claims about the Authenticator                                          *)

RedeemRequests == Len(SelectSeq(authLog, LAMBDA e : e = "redeem request"))
DeviceCodeRequests == Len(SelectSeq(authLog, LAMBDA e : e = "devicecode request"))
Displays == Len(SelectSeq(authLog, LAMBDA e : e = "display"))

RefreshFailed == refreshErr # Nil /\ refreshErr # NoErr

\* the call returned what the device-code flow produced
ReturnedFlowResult ==
    /\ flow \in Terminal
    /\ result.ok <=> flow = "Granted"
    /\ result.ok =>
         /\ result.tokens = tokens
         /\ tokens.AccessToken = lastResponse.body.access_token
    /\ ~result.ok =>
         result.err.msg[1] \in {"request device code", "authentication failed"}

\* C1: whenever refresh() fails, GetTokens starts the device-code flow, and
\* what it returns is that flow's result, never the refresh error.
C1_RefreshFailureFallsBack ==
    RefreshFailed =>
        /\ DeviceCodeRequests = 1
        /\ flow # "Idle"
        /\ pc = "done" => (ReturnedFlowResult /\ result.err # refreshErr)

C1_Witness ==
    /\ RefreshFailed
    /\ refreshErr.kind = "transport"
    /\ pc = "done"
    /\ flow = "Granted"

\* C2 (as claimed): a transport error on a redemption request, received
\* before the deadline, leaves the flow in AwaitingUser and polling.
C2_TransportErrorKeepsPolling ==
    (lastResponse = TransportFailure /\ now < deadline) =>
        (flow = "AwaitingUser" /\ pc \in {"sleep", "redeem"})

\* C3: N authorization_pending responses, each received before the
\* deadline, then one success response: the flow is still polling after each
\* pending response, and on the success response it ends Granted after
\* exactly N+1 redemption requests, returning that response's credential.
C3_PendingsThenSuccess ==
    /\ (redeemed >= 1 /\ pendings = redeemed /\ pc = "done") => now >= deadline
    /\ (redeemed >= 1 /\ pendings = redeemed - 1 /\ IsSuccessResponse(lastResponse)) =>
          /\ pc = "done"
          /\ flow = "Granted"
          /\ RedeemRequests = pendings + 1
          /\ result.ok
          /\ result.tokens.AccessToken = lastResponse.body.access_token
          /\ result.tokens.RefreshToken = lastResponse.body.refresh_token

C3_Witness ==
    /\ pendings = 2
    /\ redeemed = 3
    /\ IsSuccessResponse(lastResponse)
    /\ flow = "Granted"

OnlyPendings == redeemed >= 1 /\ pendings = redeemed

C5_FlowTerminates == (flow = "CodeRequested") ~> (flow \in Terminal /\ pc = "done")

C5_Witness ==
    /\ flow \in Terminal
    /\ pc = "done"
    /\ redeemed >= 3
    /\ lastResponse.kind = "json"
    /\ lastResponse.body.error = "slow_down"

\* C6 (as claimed): a redemption response whose error code is not
\* authorization_pending ends the loop with an error, whatever its
\* error_description.
C6_OtherCodesEndTheLoop ==
    (lastResponse # Nil /\ lastResponse.kind = "json"
        /\ lastResponse.body.error \notin {"", "authorization_pending"}) =>
            (pc = "done" /\ ~result.ok /\ flow \in {"Denied", "Expired", "Error"})

DeviceCodeRequestFailed ==
    /\ dcExchange # Nil
    /\ \/ dcExchange.kind \in {"transport", "badjson"}
       \/ dcExchange.status < 200
       \/ dcExchange.status >= 300

\* C7 (as claimed): a device-code request that ends in a network error, an
\* unparseable body or a non-2xx status makes deviceCodeAuth return the
\* "request device code" error; nothing is displayed, nothing is redeemed.
C7_FailedDeviceCodeRequestIsFatal ==
    DeviceCodeRequestFailed =>
        /\ pc = "done"
        /\ flow = "Error"
        /\ ~result.ok
        /\ result.err.msg[1] = "request device code"
        /\ Displays = 0
        /\ RedeemRequests = 0

---------------------------------------------------------------------------
(* Claims about GetAllPages                                                *)

\* the server's view: a page that was served, as against a failed exchange
PageOk(x) == x.kind = "json" /\ x.status < 400


RECURSIVE ServedRecords(_)
\* the records of the served pages, in page order and in-page order
ServedRecords(resps) ==
    IF resps = <<>> THEN <<>>
    ELSE ServedRecords(Front(resps))
            \o (IF PageOk(Last(resps)) THEN Last(resps).value ELSE <<>>)

PageFailedLast == pageResponses # <<>> /\ ~PageOk(Last(pageResponses))

\* C8: when pages 1..k-1 are served and the request for page k fails,
\* GetAllPages returns an error together with exactly the records of pages
\* 1..k-1, in order.
C8_PartialResultsWithError ==
    PageFailedLast =>
        /\ gpc = "done"
        /\ pageResult.err # NoErr
        /\ pageResult.results = ServedRecords(Front(pageResponses))
        /\ Len(Requests(pageLog)) = Len(pageResponses)

C8_Witness ==
    /\ PageFailedLast
    /\ gpc = "done"
    /\ Len(pageResponses) = 3
    /\ Last(pageResponses).kind = "json"
    /\ Len(pageResult.results) >= 3

\* k served pages, each but the last carrying a next-link
Chain(resps) ==
    /\ resps # <<>>
    /\ \A i \in 1..Len(resps) :
         /\ PageOk(resps[i])
         /\ resps[i].next = 0 <=> i = Len(resps)

\* served pages that all carry a next-link
OpenChain(resps) ==
    /\ resps # <<>>
    /\ \A i \in 1..Len(resps) : PageOk(resps[i]) /\ resps[i].next # 0

\* C9: with maxResults = 0 and a chain of k pages, GetAllPages issues k
\* requests and k-1 delays and returns the k pages' records in order with a
\* nil error; it does not return while the pages still carry next-links.
C9_WalksTheWholeChain ==
    maxResults = 0 =>
        /\ Chain(pageResponses) =>
             /\ gpc = "done"
             /\ pageResult = [results |-> ServedRecords(pageResponses), err |-> NoErr]
             /\ Len(Requests(pageLog)) = Len(pageResponses)
             /\ Len(Delays(pageLog)) = Len(pageResponses) - 1
        /\ OpenChain(pageResponses) => gpc # "done"

C9_Witness ==
    /\ maxResults = 0
    /\ Chain(pageResponses)
    /\ Len(pageResponses) = 3
    /\ gpc = "done"
    /\ Len(pageResult.results) >= 4

\* C10 (as claimed): every rate-limit delay is followed by another page
\* request; GetAllPages never returns right after a delay.
C10_NoTrailingSleep ==
    \A i \in 1..Len(pageLog) :
        pageLog[i].ev = "delay" =>
            (i < Len(pageLog) /\ pageLog[i + 1].ev = "request")

\* the first page was served with more records than maxResults and a next-link
FirstPageExceedsLimit ==
    /\ maxResults > 0
    /\ pageResponses # <<>>
    /\ PageOk(pageResponses[1])
    /\ Len(pageResponses[1].value) > maxResults
    /\ pageResponses[1].next # 0

\* C11: with maxResults > 0 smaller than the first page's record count and a
\* next-link on that page, GetAllPages issues exactly one page request (the
\* next-link is never requested) and returns all the first page's records,
\* more than maxResults of them, with a nil error.
C11_StopsAfterFirstPageUntruncated ==
    FirstPageExceedsLimit =>
        /\ Len(pageResponses) = 1
        /\ Requests(pageLog) = <<[ev |-> "request", url |-> BaseURL]>>
        /\ gpc \in {"sleep", "done"}
        /\ gpc = "done" =>
              /\ pageResult = [results |-> pageResponses[1].value, err |-> NoErr]
              /\ Len(pageResult.results) >= maxResults

C11_Witness ==
    /\ FirstPageExceedsLimit
    /\ maxResults = 1
    /\ gpc = "done"
    /\ Len(pageResult.results) = 2

\* how often the URL u was requested
RequestsFor(u) == Len(SelectSeq(pageLog, LAMBDA e : e.ev = "request" /\ e.url = u))

\* the URLs the call was given: its first URL and the served pages' next-links
LinksGiven ==
    <<BaseURL>> \o [i \in 1..Len(pageResponses) |->
                      IF PageOk(pageResponses[i]) THEN pageResponses[i].next ELSE 0]

\* the server names every page by a URL of its own
DistinctLinks ==
    \A i, j \in 1..Len(LinksGiven) :
        (i # j /\ LinksGiven[i] # 0) => LinksGiven[i] # LinksGiven[j]

---------------------------------------------------------------------------
(* Claims about the cached credential and refresh                          *)

\* tokens.json held a parseable record that was more than 5 minutes from
\* expiry when GetTokens was called
CachedValid ==
    /\ before # Nil
    /\ before.store.kind = "record"
    /\ ParseTime(before.store.json.expires_at) > before.clock + SkewSeconds

\* C13: with a cached credential that loads and is valid, GetTokens returns
\* that credential (GetAccessToken its access token) at once: no refresh
\* request, no device-code request, no redemption, no write to tokens.json.
C13_CachedCredentialIsReturnedAsIs ==
    CachedValid =>
        /\ pc = "done"
        /\ result.ok
        /\ MarshalTokens(result.tokens) = before.store.json
        /\ GetAccessToken(result) =
              [token |-> before.store.json.access_token, err |-> NoErr]
        /\ authLog = <<>>
        /\ refreshErr = Nil /\ dcExchange = Nil /\ redeemed = 0
        /\ now = before.clock
        /\ store = before.store

C13_Witness ==
    /\ CachedValid
    /\ pc = "done"
    /\ GetAccessToken(result).token = "tokOld"
    /\ before.store.json.refresh_token = "refOld"

\* C14: isTokenValid is true exactly when now < expiresAt - 5 minutes: true
\* when expiresAt is more than 5 minutes after now; false when it is exactly
\* 5 minutes ahead, inside the 5-minute window, or in the past; false when
\* no credential is held.
C14_ValidOutsideSkewWindow ==
    pc = "done" =>
        /\ result.valid <=> (tokens # Nil /\ now + SkewSeconds < tokens.ExpiresAt)
        /\ tokens = Nil => ~result.valid
        /\ tokens # Nil =>
             /\ tokens.ExpiresAt > now + SkewSeconds => result.valid
             /\ tokens.ExpiresAt = now + SkewSeconds => ~result.valid
             /\ (now <= tokens.ExpiresAt /\ tokens.ExpiresAt < now + SkewSeconds)
                   => ~result.valid
             /\ tokens.ExpiresAt < now => ~result.valid

C14_Witness ==
    /\ pc = "done"
    /\ tokens # Nil
    /\ tokens.ExpiresAt = now + SkewSeconds
    /\ now > StartTime
    /\ ~result.valid

\* the attempts to write tokens.json, as logged
WriteEntries == { "write " \o w : w \in WriteOutcomes }
Writes == SelectSeq(authLog, LAMBDA e : e \in WriteEntries)

\* C15: when refresh() returns an error, the in-memory credential and
\* tokens.json are what they were before the refresh: the old credential is
\* still held and nothing was written.  (They stay so until the device-code
\* flow that follows is granted.)
C15_FailedRefreshChangesNothing ==
    (RefreshFailed /\ flow # "Granted") =>
        /\ tokens = before.tokens
        /\ tokens # Nil
        /\ tokens.RefreshToken # ""
        /\ store = before.store
        /\ Writes = <<>>
        /\ refreshGrant = Nil

C15_Witness ==
    /\ RefreshFailed
    /\ refreshErr.kind = "protocol"
    /\ pc = "devicecode"
    /\ tokens.AccessToken = "tokOld"
    /\ store = StoredRecord("tokOld", "refOld", StartTime + SkewSeconds)

RefreshSucceeded == refreshErr = NoErr

\* C16: after a successful refresh the in-memory credential is the refresh
\* response's: its access token, its refresh token (empty when the response
\* has none; the old one does not survive) and the expiry computed from the
\* response when it arrived; and when the write succeeded, tokens.json holds
\* exactly the in-memory credential.
C16_RefreshReplacesCredential ==
    RefreshSucceeded =>
        /\ pc = "done"
        /\ tokens.AccessToken = refreshGrant.body.access_token
        /\ tokens.RefreshToken = refreshGrant.body.refresh_token
        /\ tokens.ExpiresIn = refreshGrant.body.expires_in
        /\ tokens.ExpiresOn = refreshGrant.body.expires_on
        /\ tokens = parseExpiration(UnmarshalTokens(refreshGrant.body), now)
        /\ tokens.AccessToken # before.tokens.AccessToken
        /\ tokens.RefreshToken # before.tokens.RefreshToken
        /\ tokens.ExpiresAt # before.tokens.ExpiresAt
        /\ Writes = <<"write written">> =>
              /\ store = FileRecord(MarshalTokens(tokens))
              /\ loadTokens(store) = [err |-> NoErr, tokens |-> tokens]

C16_Witness ==
    /\ RefreshSucceeded
    /\ refreshGrant.body.refresh_token = ""
    /\ before.tokens.RefreshToken = "refOld"
    /\ tokens.RefreshToken = ""
    /\ Writes = <<"write written">>
    /\ store # before.store

---------------------------------------------------------------------------
(* Claims about the expiry of a credential just obtained                   *)

\* the token response that the call accepted: the refresh response, or the
\* redemption response of a granted device-code flow (Nil: neither)
Accepted ==
    IF RefreshSucceeded THEN refreshGrant
    ELSE IF flow = "Granted" THEN lastResponse
    ELSE Nil

\* C17: when the accepted token response (grant or refresh) carries a Unix
\* timestamp in expires_on, the credential's expiresAt is that timestamp,
\* whatever expires_in says.
C17_AbsoluteExpiryWins ==
    (Accepted # Nil /\ Accepted.body.expires_on.tag = "num") =>
        /\ tokens.ExpiresAt = Accepted.body.expires_on.n
        /\ result.tokens.ExpiresAt = Accepted.body.expires_on.n

C17_Witness ==
    /\ flow = "Granted"
    /\ Accepted.body.expires_on.tag = "num"
    /\ Accepted.body.expires_in.tag = "num"
    /\ tokens.ExpiresAt = Accepted.body.expires_on.n
    /\ tokens.ExpiresAt # now + Accepted.body.expires_in.n

\* C18 (as claimed): when the accepted token response carries expires_in and
\* no expires_on, the credential's expiresAt is the issuance time plus
\* expires_in seconds.
C18_RelativeExpiry ==
    (Accepted # Nil /\ Accepted.body.expires_on = EmptyStr
        /\ Accepted.body.expires_in.tag = "num") =>
            tokens.ExpiresAt = now + Accepted.body.expires_in.n

\* C19: when the accepted token response carries neither expires_on nor
\* expires_in, expiresAt is the issuance time plus one hour; and after every
\* successful device-code flow or refresh expiresAt is set, never the zero
\* time.
C19_DefaultExpiryAlwaysSet ==
    Accepted # Nil =>
        /\ (Accepted.body.expires_on = EmptyStr /\ Accepted.body.expires_in = EmptyStr)
              => tokens.ExpiresAt = now + HourSeconds
        /\ tokens.ExpiresAt # ZeroTime
        /\ result.tokens.ExpiresAt # ZeroTime

C19_Witness ==
    /\ flow = "Granted"
    /\ Accepted.body.expires_on = EmptyStr
    /\ Accepted.body.expires_in = EmptyStr
    /\ tokens.ExpiresAt = now + HourSeconds
    /\ now > StartTime

---------------------------------------------------------------------------
(* Claims about persistence                                                *)

\* the write of tokens.json after a grant or a refresh failed
SaveFailed ==
    \/ Writes # <<>> /\ Last(Writes) # "write written"
    \/ authLog # <<>> /\ Last(authLog) = "marshal failed"

\* C20: when writing tokens.json fails after a successful device-code grant
\* or refresh, the call still returns success, with the credential just
\* obtained, and that credential is the one held in memory.
C20_SaveFailureIsNotFatal ==
    SaveFailed =>
        /\ Accepted # Nil
        /\ pc = "done"
        /\ result.ok
        /\ result.err = NoErr
        /\ result.tokens = tokens
        /\ tokens.AccessToken = Accepted.body.access_token
        /\ tokens.RefreshToken = Accepted.body.refresh_token
        /\ GetAccessToken(result) =
              [token |-> Accepted.body.access_token, err |-> NoErr]

C20_Witness ==
    /\ SaveFailed
    /\ flow = "Granted"
    /\ Writes = <<"write " \o "write failed">>
    /\ store = FileMalformed
    /\ before.store.kind = "record"
    /\ result.ok
    /\ result.tokens.AccessToken = "tokNew"

\* a device-code flow is under way, or one has failed
FlowUnfinished == flow \in {"CodeRequested", "AwaitingUser", "Denied", "Expired", "Error"}

\* C21: tokens.json is written only with a fully-formed credential.  A write
\* happens only after a successful grant or refresh, at most once in a call,
\* and what it writes is the credential just obtained, with a non-empty
\* access token and its computed expiresAt; while a device-code flow is in
\* progress, and after a failed flow or a failed refresh, nothing is written;
\* a written file holds that one record.
C21_OnlyFullCredentialsAreWritten ==
    /\ Len(Writes) <= 1
    /\ Writes # <<>> =>
          /\ Accepted # Nil
          /\ pc = "done"
          /\ tokens.AccessToken # ""
          /\ tokens.AccessToken = Accepted.body.access_token
          /\ tokens.ExpiresAt # ZeroTime
          /\ tokens = parseExpiration(UnmarshalTokens(Accepted.body), now)
    /\ Writes = <<"write written">> => store = FileRecord(MarshalTokens(tokens))
    /\ (before # Nil /\ (FlowUnfinished \/ (RefreshFailed /\ flow # "Granted"))) =>
          /\ Writes = <<>>
          /\ store = before.store

C21_Witness ==
    /\ Writes = <<"write written">>
    /\ flow = "Granted"
    /\ RefreshFailed
    /\ redeemed >= 2
    /\ store.json.access_token = "tokNew"

RefreshRequests == Len(SelectSeq(authLog, LAMBDA e : e = "refresh request"))

\* tokens.json was absent or not parseable when GetTokens was called
LoadFailed == before # Nil /\ before.store.kind # "record"

\* C22: when loading the cached credential fails (file absent or not
\* parseable), GetTokens sends no refresh request and goes to the
\* device-code flow; what it returns is that flow's result, never the load
\* error.
C22_LoadFailureIsNotFatal ==
    LoadFailed =>
        /\ before.tokens = Nil
        /\ RefreshRequests = 0
        /\ refreshErr = Nil
        /\ DeviceCodeRequests = 1
        /\ authLog[1] = "devicecode request"
        /\ flow # "Idle"
        /\ pc = "done" =>
              /\ ReturnedFlowResult
              /\ result.err.kind # "persistence"

C22_Witness ==
    /\ LoadFailed
    /\ before.store = FileMalformed
    /\ pc = "done"
    /\ flow = "Granted"
    /\ result.ok

\* C23: a credential that saveTokens has written comes back from loadTokens
\* with the same access token, the same refresh token and the same
\* expiresAt.
C23_SaveLoadRoundTrip ==
    (pc = "done" /\ authLog = <<"write written">>) =>
        /\ result.err = NoErr
        /\ tokens.AccessToken = before.tokens.AccessToken
        /\ tokens.RefreshToken = before.tokens.RefreshToken
        /\ tokens.ExpiresAt = before.tokens.ExpiresAt
        /\ tokens = before.tokens

C23_Witness ==
    /\ pc = "done"
    /\ authLog = <<"write written">>
    /\ before.store = FileMalformed
    /\ before.tokens.ExpiresAt = StartTime + HourSeconds
    /\ tokens.ExpiresAt = StartTime + HourSeconds
    /\ tokens.AccessToken = "tokNew"
    /\ tokens.RefreshToken = "refNew"

---------------------------------------------------------------------------
(* Claims about the API client's requests                                  *)

HasStatus(x) == x.kind # "transport"

\* C24: for Get and Post, and for each page of GetAllPages, a response with
\* status >= 400 gives an error that carries the status code, with no
\* response bytes and no records of that response, and the request is not
\* sent again; a response with status < 400 is never made an API error.
C24_StatusClassification ==
    /\ (call # Nil /\ call.response # Nil) =>
          /\ gpc = "done"
          /\ Len(sentHeaders) = 1
          /\ (HasStatus(call.response) /\ call.response.status >= 400) =>
                /\ call.result.err.kind = "api"
                /\ call.result.err.status = call.response.status
                /\ call.result.body = Nil
          /\ (HasStatus(call.response) /\ call.response.status < 400) =>
                /\ call.result.err = NoErr
                /\ call.result.body = call.response.text
          /\ ~HasStatus(call.response) => call.result.err.kind # "api"
    /\ \A k \in 1..Len(pageResponses) :
          /\ (HasStatus(pageResponses[k]) /\ pageResponses[k].status >= 400) =>
                /\ k = Len(pageResponses)
                /\ gpc = "done"
                /\ pageResult.err.kind = "api"
                /\ pageResult.err.status = pageResponses[k].status
                /\ pageResult.results = ServedRecords(Front(pageResponses))
                /\ Len(sentHeaders) = k
          /\ (gpc = "done" /\ pageResult.err.kind = "api") =>
                /\ HasStatus(Last(pageResponses))
                /\ Last(pageResponses).status >= 400

C24_Witness ==
    /\ Len(pageResponses) = 2
    /\ pageResponses[2] = Page(400, PageRecords(2, 1), MaxUrl)
    /\ gpc = "done"
    /\ pageResult.err.status = 400
    /\ pageResult.results = PageRecords(1, 2)
    /\ Len(sentHeaders) = 2

\* a Get or Post ended in an API error
CallRefused == call # Nil /\ call.result # Nil /\ call.result.err.kind = "api"

IsPrefix(s, t) == Len(s) <= Len(t) /\ s = SubSeq(t, 1, Len(s))

\* C25 (as claimed): the body text in an API error is the body itself when it
\* has at most 200 characters, and otherwise is no longer than 200
\* characters and a prefix of the body.
C25_ErrorTextWithin200 ==
    CallRefused =>
        /\ Len(call.response.text) <= maxLen =>
              call.result.err.text = call.response.text
        /\ Len(call.response.text) > maxLen =>
              /\ Len(call.result.err.text) <= maxLen
              /\ IsPrefix(call.result.err.text, call.response.text)

\* C25 (amended): the body text in an API error is the body itself when it
\* has at most 200 characters, and otherwise the body's first 200 characters
\* followed by "...", 203 characters in all; the same holds for the error of
\* a page request.
C25_ErrorTextIs200PlusEllipsis ==
    /\ CallRefused =>
          /\ Len(call.response.text) <= maxLen =>
                call.result.err.text = call.response.text
          /\ Len(call.response.text) > maxLen =>
                /\ Len(call.result.err.text) = maxLen + 3
                /\ SubSeq(call.result.err.text, 1, maxLen)
                      = SubSeq(call.response.text, 1, maxLen)
                /\ SubSeq(call.result.err.text, maxLen + 1, maxLen + 3)
                      = <<Dot, Dot, Dot>>
    /\ (gpc = "done" /\ pageResponses # <<>> /\ Last(pageResponses).kind = "reply") =>
          /\ pageResult.err.kind = "api"
          /\ Len(pageResult.err.text) = maxLen + 3
          /\ SubSeq(pageResult.err.text, 1, maxLen)
                = SubSeq(Last(pageResponses).text, 1, maxLen)

C25_Witness ==
    /\ CallRefused
    /\ Len(call.response.text) = maxLen + 1
    /\ Len(call.result.err.text) = maxLen + 3
    /\ ~IsPrefix(call.result.err.text, call.response.text)

\* the requests the client has sent: the Get or Post, and the page requests
RequestsSent == Len(Requests(pageLog)) + (IF call # Nil THEN 1 ELSE 0)

\* every request sent carries the token of the Client c and the User-Agent
CarryToken(c, headers) ==
    \A i \in 1..Len(headers) :
        /\ headers[i].Authorization = <<"Bearer", c.accessToken>>
        /\ headers[i].UserAgent = UserAgent

\* C26: every request the client sends (Get, Post, each page request, the
\* followed next-links included) carries the bearer token the Client was
\* built with and the fixed User-Agent; no step changes the Client's token,
\* and no step of the client touches the Authenticator or sends anything to
\* the identity provider, a step that receives a 401 included.
C26_RequestsCarryTheToken ==
    [][ /\ client' = client
        /\ client.accessToken \in AccessTokens
        /\ Len(sentHeaders') = RequestsSent'
        /\ CarryToken(client, sentHeaders')
        /\ authVars' = authVars
        /\ authLog' = <<>> ]_vars

C26_Witness ==
    /\ Len(sentHeaders) = 3
    /\ Len(pageResponses) = 3
    /\ Last(pageResponses).kind = "reply"
    /\ Last(pageResponses).status = 401
    /\ gpc = "done"
    /\ client.accessToken = "tokOld"
    /\ sentHeaders[3].Authorization = <<"Bearer", "tokOld">>
    /\ authLog = <<>>

---------------------------------------------------------------------------
(* Claims about the device-code session                                    *)

TokenKeys == {"access_token", "refresh_token", "expires_in", "expires_on",
              "expires_at"}

\* the codes the server hands out in DeviceCodeBodies
SessionCodes ==
    UNION { {b.device_code, b.user_code} : b \in DeviceCodeBodies }

\* C27: tokens.json never holds a device code or a user code, under any key,
\* and once the flow has ended (Granted, Denied, Expired or Error) no
\* session data is held.
C27_DeviceCodeIsNeverPersisted ==
    /\ store.kind = "record" =>
          /\ DOMAIN store.json = TokenKeys
          /\ store.json.access_token \notin SessionCodes
          /\ store.json.refresh_token \notin SessionCodes
    /\ flow \in Terminal => session = Nil
    /\ pc = "done" => session = Nil
    /\ session # Nil => flow = "AwaitingUser"

C27_Witness ==
    /\ flow = "Granted"
    /\ Writes = <<"write written">>
    /\ store.kind = "record"
    /\ redeemed >= 2
    /\ session = Nil

\* C28 (as claimed): no redemption request is sent at or after the session
\* deadline (start of polling + expires_in), and the flow never ends in
\* Granted at or after the deadline.
C28_NothingAtOrAfterDeadline ==
    /\ pc = "redeem" => now < deadline
    /\ flow = "Granted" => now < deadline

\* what the device-code flow did, in order
FlowEvents ==
    SelectSeq(authLog, LAMBDA e :
        e \in {"devicecode request", "display", "sleep", "redeem request"})

\* device-code request, display, then rounds of sleep and redemption request
FlowOrder ==
    \A i \in 1..Len(FlowEvents) :
        FlowEvents[i] = CASE i = 1 -> "devicecode request"
                          [] i = 2 -> "display"
                          [] i > 2 /\ i % 2 = 1 -> "sleep"
                          [] OTHER -> "redeem request"

\* the steps of the state machine Idle -> CodeRequested -> AwaitingUser ->
\* (Granted | Denied | Expired | Error)
FlowStep(from, to) ==
    \/ from = to
    \/ from = "Idle" /\ to = "CodeRequested"
    \/ from = "CodeRequested" /\ to \in {"AwaitingUser", "Error"}
    \/ from = "AwaitingUser" /\ to \in Terminal

\* C29: in every attempt the events come in the order device-code request,
\* display (exactly once), then the poll loop: no redemption request before
\* the display, no second display, and the flow moves along the state
\* machine only, never out of Granted, Denied, Expired or Error.
C29_FlowOrder ==
    [][ /\ FlowOrder'
        /\ Displays' <= 1
        /\ RedeemRequests' > 0 => Displays' = 1
        /\ flow' = "AwaitingUser" => Displays' = 1
        /\ FlowStep(flow, flow')
        /\ flow \in Terminal => (flow' = flow /\ pc' = pc /\ authLog' = authLog) ]_vars

C29_Witness ==
    /\ flow = "Denied"
    /\ Len(FlowEvents) = 8
    /\ Displays = 1
    /\ RedeemRequests = 3
    /\ pc = "done"

\* C30: one GetTokens call sends at most one refresh request and at most one
\* device-code request; once the device-code flow has ended in Denied,
\* Expired or Error the call has returned that flow's error, and no second
\* flow is started.
C30_NoSilentRestart ==
    /\ RefreshRequests <= 1
    /\ DeviceCodeRequests <= 1
    /\ flow \in {"Denied", "Expired", "Error"} =>
          /\ pc = "done"
          /\ DeviceCodeRequests = 1
          /\ ~result.ok
          /\ result.tokens = Nil
          /\ result.err.msg[1] \in {"request device code", "authentication failed"}
          /\ flow = "Denied" => result.err.kind = "oauth"
          /\ flow = "Expired" => result.err.kind = "timeout"

C30_Witness ==
    /\ flow = "Denied"
    /\ pc = "done"
    /\ RefreshRequests = 1
    /\ DeviceCodeRequests = 1
    /\ RedeemRequests = 2
    /\ result.err.kind = "oauth"


\* page requests sent and not yet answered
InFlight == Len(Requests(pageLog)) - Len(pageResponses)

\* C31: pagination is a strictly ordered walk.  The first request of
\* GetAllPages goes to baseURL+endpoint; every later request goes to exactly
\* the next-link of the response just before it, which was a served page; and
\* a request is sent only when every earlier one has been answered, so at
\* most one page request is in flight, and one is exactly while the call
\* waits for a page.
C31_OrderedWalk ==
    /\ InFlight \in {0, 1}
    /\ InFlight = 1 <=> gpc = "request"
    /\ \A k \in 1..Len(Requests(pageLog)) :
          IF k = 1
          THEN Requests(pageLog)[k].url = client.baseURL
          ELSE /\ PageOk(pageResponses[k - 1])
               /\ pageResponses[k - 1].next # 0
               /\ Requests(pageLog)[k].url = pageResponses[k - 1].next

C31_Witness ==
    /\ gpc = "request"
    /\ Len(pageResponses) = 2
    /\ pageResponses[1].next = MaxUrl
    /\ pageResponses[2].next = BaseURL
    /\ Requests(pageLog) = <<[ev |-> "request", url |-> BaseURL],
                             [ev |-> "request", url |-> MaxUrl],
                             [ev |-> "request", url |-> BaseURL]>>


Sleeps == Len(SelectSeq(authLog, LAMBDA e : e = "sleep"))

\* the interval a device-code response asks for: its `interval` when that
\* reads as a positive integer, 5 seconds otherwise
IntervalFor(s) ==
    IF s.tag \in {"num", "prefix"} /\ s.n > 0 THEN s.n ELSE DefaultInterval

\* C32: the poll interval is the server's `interval` when it parses as a
\* positive integer and 5 seconds otherwise (missing, unparseable, zero or
\* negative); once set it stays the same for the whole flow; and every
\* redemption request, the first included, comes right after exactly one
\* sleep of that interval, so there are as many sleeps as redemption requests.
C32_PollInterval ==
    [][ /\ session' # Nil => (interval' = IntervalFor(session'.interval) /\ interval' > 0)
        /\ interval # 0 => interval' = interval
        /\ Sleeps' = RedeemRequests'
        /\ RedeemRequests' # RedeemRequests =>
              /\ authLog' = authLog \o <<"sleep", "redeem request">>
              /\ now' = now + interval
              /\ interval' = interval ]_vars

C32_Witness ==
    /\ pc = "redeem"
    /\ session # Nil
    /\ session.interval = JunkStr
    /\ interval = DefaultInterval
    /\ Sleeps = 1
    /\ RedeemRequests = 1
    /\ now >= StartTime + DefaultInterval


\* C33: a failed device-code flow has no effect on credentials.  From the
\* moment the flow starts, every step that does not end it in Granted (the
\* device-code response, a sleep, a pending or failed redemption, the
\* time-out) leaves the in-memory credential and the persisted record as they
\* were, so a flow that returns an error returns with both as it found them.
C33_FailedFlowChangesNothing ==
    [][ (flow \in {"CodeRequested", "AwaitingUser"} /\ flow' # "Granted") =>
            (tokens' = tokens /\ store' = store) ]_vars

C33_Witness ==
    /\ flow = "Denied"
    /\ pc = "done"
    /\ RefreshFailed
    /\ tokens # Nil
    /\ tokens = before.tokens
    /\ store = before.store
    /\ store.kind = "record"
    /\ RedeemRequests = 2


\* C34 (as claimed): whenever GetAccessToken returns without error, the token
\* string it returns is non-empty, whatever tokens.json held when the call
\* started and whatever the server answered.
C34_ReturnedTokenIsNonEmpty ==
    (pc = "done" /\ GetAccessToken(result).err = NoErr) =>
        GetAccessToken(result).token # ""


\* every page served so far holds at least one record
NoEmptyPage ==
    \A i \in 1..Len(pageResponses) :
        PageOk(pageResponses[i]) => Len(pageResponses[i].value) >= 1

\* the cap is set and the records gathered have reached it
CapReached == maxResults > 0 /\ Len(allResults) >= maxResults

\* C35: with maxResults = m > 0 and at least one record in every page,
\* GetAllPages issues at most m page requests, whether or not the next-links
\* ever end; no page request is out once the records gathered number m or
\* more; and from the delay that follows the page that reached m the call
\* returns what it gathered, with a nil error, without another request.
C35_BoundedUnderCap ==
    /\ [](/\ (maxResults > 0 /\ NoEmptyPage) =>
                /\ Len(Requests(pageLog)) <= maxResults
                /\ Len(pageResponses) = maxResults => gpc \in {"sleep", "done"}
          /\ CapReached => gpc \in {"sleep", "done"})
    /\ [][ (CapReached /\ gpc = "sleep") =>
              /\ gpc' = "done"
              /\ pageResult' = [results |-> allResults, err |-> NoErr]
              /\ Requests(pageLog') = Requests(pageLog) ]_vars

C35_Witness ==
    /\ maxResults = 2
    /\ gpc = "done"
    /\ Len(pageResponses) = 2
    /\ \A i \in 1..2 : PageOk(pageResponses[i])
    /\ Len(pageResponses[1].value) = 1
    /\ Len(pageResponses[2].value) = 1
    /\ pageResponses[1].next = MaxUrl
    /\ pageResponses[2].next = BaseURL
    /\ Len(Requests(pageLog)) = 2
    /\ pageResult.err = NoErr
    /\ Len(pageResult.results) = 2


\* GetTokens has returned a credential and no write of tokens.json failed
ReturnedWithStoreIntact == pc = "done" /\ result.ok /\ ~SaveFailed

\* C36: whenever GetTokens returns successfully and no store write failed
\* during the call, the credential held in memory, which is the one returned,
\* equals the persisted record in access token, refresh token and expiry
\* instant, whether it came from the cache, a refresh or the device-code flow.
C36_MemoryAgreesWithStore ==
    ReturnedWithStoreIntact =>
        /\ result.tokens = tokens
        /\ store.kind = "record"
        /\ store.json.access_token = tokens.AccessToken
        /\ store.json.refresh_token = tokens.RefreshToken
        /\ store.json.expires_at.wall - store.json.expires_at.zone = tokens.ExpiresAt

C36_Witness ==
    /\ ReturnedWithStoreIntact
    /\ flow = "Granted"
    /\ RefreshFailed
    /\ Writes = <<"write written">>
    /\ store # before.store
    /\ tokens.AccessToken = "tokNew"
    /\ tokens.ExpiresAt > now


\* GetAllPages, called as EnumerateUsers calls it, returned an error after
\* at least one page of records
FailedAfterRecords ==
    /\ gpc = "done"
    /\ maxResults = 0
    /\ pageResult # Nil
    /\ pageResult.err # NoErr
    /\ pageResult.results # <<>>

\* C37 (as claimed): when a page fails after earlier pages succeeded, the
\* users of the pages before the failure reach the caller of EnumerateUsers
\* together with the error.
C37_PartialUsersReachCaller ==
    FailedAfterRecords =>
        /\ EnumerateUsers(pageResult).err = pageResult.err
        /\ EnumerateUsers(pageResult).users # Nil
        /\ Len(EnumerateUsers(pageResult).users) = Len(pageResult.results)


---------------------------------------------------------------------------
(* Claims about Hunter.Run                                                 *)

Phases == <<"search", "download", "extract">>

\* the number of distinct items in the search results Run holds
UniqueFound ==
    Cardinality({ id \in 1..MaxItems :
                    \E i \in 1..Len(huntResult.SearchResults) :
                        \E j \in 1..Len(huntResult.SearchResults[i].Items) :
                            huntResult.SearchResults[i].Items[j] = id })

\* C38: phase ordering in Hunter.Run.  The search is always the first phase;
\* the download phase is entered only after the search has returned, and
\* only if AutoDownload is set and the search found at least one unique item;
\* the extraction is entered only after the download phase has returned, and
\* only if ExtractSecret is set and at least one file was downloaded; with
\* AutoDownload false neither a download nor an extraction happens and the
\* summary's FilesDownloaded and SecretsFound are 0.
C38_PhaseOrder ==
    hpc # "idle" =>
        /\ Len(huntLog) \in 1..3
        /\ huntLog = SubSeq(Phases, 1, Len(huntLog))
        /\ hpc = "search" => huntLog = <<"search">>
        /\ Len(huntLog) >= 2 =>
              /\ opts.AutoDownload
              /\ UniqueFound >= 1
              /\ hpc \in {"download", "extract", "done"}
        /\ hpc = "download" => Len(huntLog) = 2
        /\ Len(huntLog) = 3 =>
              /\ opts.ExtractSecret
              /\ Len(huntResult.DownloadedFiles) >= 1
              /\ hpc \in {"extract", "done"}
        /\ ~opts.AutoDownload =>
              /\ huntLog = <<"search">>
              /\ huntResult.DownloadedFiles = <<>>
              /\ huntResult.SecretsFound = <<>>
              /\ hpc = "done" =>
                    /\ huntResult.Summary.FilesDownloaded = 0
                    /\ huntResult.Summary.SecretsFound = 0

C38_Witness ==
    /\ hpc = "done"
    /\ huntLog = Phases
    /\ opts.AutoDownload
    /\ opts.ExtractSecret
    /\ UniqueFound = 2
    /\ huntResult.Summary.FilesDownloaded = 2
    /\ huntResult.Summary.SecretsFound = 1

=============================================================================
